---- MODULE Spec2Model ----
(***************************************************************************)
(* Model of adk_mcp_ping.session_manager.PingEnabledSessionManager: the    *)
(* registry of keep-alive ping tasks (_ping_tasks), the ping loop of each  *)
(* task, create_session and close.                                         *)
(*                                                                         *)
(* The program runs on one asyncio event loop.  One action of the model is *)
(* the code a coroutine runs between two suspension points.  The registry  *)
(* lock (_ping_task_lock) is only ever held over code without an await, and*)
(* acquiring a free asyncio.Lock does not suspend, so every critical       *)
(* section lies inside one action and the lock is free between actions.    *)
(*                                                                         *)
(* The underlying MCPSessionManager (super().create_session, super().close,*)
(* _is_session_disconnected) and ClientSession.send_ping are external: the *)
(* provider keeps one session per key and replaces it once it is           *)
(* disconnected; sessions disconnect, pings fail and cancellation inside   *)
(* send_ping is honoured, converted or swallowed nondeterministically.     *)
(* close() is called at most once in the life of the manager.              *)
(*                                                                         *)
(* SpecToolset is the construction of PingEnabledMcpToolset, which installs*)
(* the manager; FairSpec is Spec under the scheduling of the event loop,   *)
(* with a send_ping that ends when it is cancelled.                        *)
(* SpecTimed runs the ping loop against a clock of whole seconds, with     *)
(* sessions that stay connected and pings that do not fail.                *)
(***************************************************************************)
EXTENDS Integers, Sequences, FiniteSets, TLC

NumKeys  == 2   \* distinct session keys callers ask for
MaxCalls == 2   \* create_session calls made in a run
MaxPings == 2   \* send_ping attempts made in a run
MaxInterval == 100   \* largest ping_interval (seconds) a toolset is constructed with
MaxTime == 6         \* seconds the clock runs for
MaxTimedInterval == 2   \* largest ping_interval (seconds) the clock runs with

Keys       == 1..NumKeys
TaskIds    == 1..MaxCalls   \* a call spawns at most one task
SessionIds == 1..MaxCalls   \* a call makes the provider create at most one session

NoSession == 0

DEFAULT_PING_INTERVAL_SECONDS == 50

\* the idle timeout of the load balancer the default is chosen against
IDLE_TIMEOUT_SECONDS == 60

\* the ping_interval argument left out by the caller
Unset == 0

IntervalArgs == (1..MaxInterval) \cup {Unset}

VARIABLES
    ping_tasks,     \* self._ping_tasks: insertion-ordered dict, a sequence of [key, task]
    tasks,          \* the asyncio tasks running _ping_loop, by task id: key, session,
                    \* position (st), pending cancellation, ping_count, how the loop
                    \* ended (cause), the attempt that failed, sleeps completed,
                    \* liveness checks made, outcome of the task
    sessions,       \* provider: the session it holds for each key (NoSession if none)
    session_state,  \* per session: "absent", "connected" or "disconnected"
    calls,          \* number of create_session calls made so far
    creating,       \* per key: create_session calls waiting in super().create_session
    last_call,      \* how the create_session call that ended last ended: "ok" or "error"
    last_provider,  \* what super().create_session did in that call: "session" or "raised"
    closer,         \* position of close(): pc, tasks_to_cancel, loop index, cancel() calls made
    providerCloses, \* number of super().close() invocations
    handed_out,     \* sessions returned to callers by create_session
    toolset,        \* the PingEnabledMcpToolset that owns the manager
    timer           \* the clock of the event loop (whole seconds): whether it runs, now,
                    \* and per task the time it was spawned, the end of its current
                    \* sleep, the time it has spent inside send_ping

vars == <<ping_tasks, tasks, sessions, session_state, calls, creating, last_call,
          last_provider, closer, providerCloses, handed_out, toolset, timer>>

----------------------------------------------------------------------------
(* The dict operations the code uses on _ping_tasks *)

DictHas(d, k) == \E i \in 1..Len(d) : d[i].key = k

DictSet(d, k, t) ==
    IF DictHas(d, k)
    THEN [i \in 1..Len(d) |-> IF d[i].key = k THEN [key |-> k, task |-> t] ELSE d[i]]
    ELSE Append(d, [key |-> k, task |-> t])

DictPop(d, k) == SelectSeq(d, LAMBDA e : e.key # k)

DictTasks(d) == {d[i].task : i \in 1..Len(d)}

----------------------------------------------------------------------------
(* Tasks *)

Unborn == [key |-> 0, session |-> NoSession, st |-> "unborn", must_cancel |-> FALSE,
           ping_count |-> 0, cause |-> "none", failed_at |-> 0,
           sleeps |-> 0, checks |-> 0, outcome |-> "none"]

Running == {"created", "sleeping", "pinging"}

Spawned == {t \in TaskIds : tasks[t].st # "unborn"}

Live == {t \in TaskIds : tasks[t].st \in Running}

NumSessions == Cardinality({s \in SessionIds : session_state[s] # "absent"})

\* send_ping attempts made so far by all loops
RECURSIVE PingsOf(_)
PingsOf(T) ==
    IF T = {} THEN 0
    ELSE LET t == CHOOSE u \in T : TRUE IN tasks[t].ping_count + PingsOf(T \ {t})

\* asyncio.create_task(self._ping_loop(session, session_key)): scheduled, not yet run
NewTask(session, session_key) ==
    [Unborn EXCEPT !.key = session_key, !.session = session, !.st = "created"]

\* variant of TaskOutcome in which `except Exception` lets the error out of the task
TaskOutcome_Raise(cause) ==
    IF cause = "cancel" THEN "cancelled"
    ELSE IF cause = "pingfail" THEN "raised" ELSE "returned"

\* how the task ends for each way out of the loop: `except CancelledError: raise`
\* leaves the task cancelled, `break` and `except Exception` let the coroutine return
TaskOutcome(cause) == IF cause = "cancel" THEN "cancelled" ELSE "returned"

\* the task is done; cause "cancel": CancelledError reached the loop, cause
\* "disconnect": the liveness check ended it, cause "pingfail": send_ping raised
Finished(t, cause) ==
    [tasks EXCEPT ![t].st = "done", ![t].must_cancel = FALSE, ![t].cause = cause,
                  ![t].outcome = TaskOutcome(cause)]

\* self._is_session_disconnected(session)
IsSessionDisconnected(session) == session_state[session] = "disconnected"

\* variant of CleanupPingTask that empties the registry
CleanupPingTask_Clear(session_key) == <<>>

\* variant of CleanupPingTask that leaves the entry in the registry
CleanupPingTask_Keep(session_key) == ping_tasks

\* _cleanup_ping_task: self._ping_tasks.pop(session_key, None) under the lock
CleanupPingTask(session_key) == DictPop(ping_tasks, session_key)

\* variant of NeedsPingTask without the membership test
NeedsPingTask_Always(session_key) == TRUE

\* `if session_key not in self._ping_tasks` of _start_ping_task_if_needed
NeedsPingTask(session_key) == ~DictHas(ping_tasks, session_key)

\* `return session` of create_session
CreateSessionResult(session) == session

\* variant of CreateSessionOnError in which create_session catches the provider's error
CreateSessionOnError_Swallow == "ok"

\* what the caller of create_session sees when super().create_session raises: the
\* await is in no try block, the error leaves create_session
CreateSessionOnError == "error"

\* variant of LoopEntry in which the loop pings before its first sleep
LoopEntry_PingFirst(t) ==
    [tasks EXCEPT ![t].st = "pinging", ![t].ping_count = @ + 1]

\* the task after its first step: `ping_count = 0`, `try`, `while True`, suspended in
\* `await asyncio.sleep(self._ping_interval)`
LoopEntry(t) == [tasks EXCEPT ![t].st = "sleeping"]

\* variant of DisconnectResult without the `break`: the loop goes on to send_ping
DisconnectResult_Continue(t) ==
    [tasks EXCEPT ![t].st = "pinging", ![t].cause = "disconnect",
                  ![t].sleeps = @ + 1, ![t].checks = @ + 1, ![t].ping_count = @ + 1]

\* the task after a sleep that ended with the session disconnected: `break`,
\* `finally`, the coroutine returns
DisconnectResult(t) ==
    [Finished(t, "disconnect") EXCEPT ![t].sleeps = @ + 1, ![t].checks = @ + 1]

\* variant of SnapshotHoldsLock in which the for loop is inside the `async with` block
SnapshotHoldsLock_Yes == TRUE

\* whether close() still holds _ping_task_lock while it cancels and awaits the tasks:
\* the `async with` block ends after the snapshot and the clear, before the for loop
SnapshotHoldsLock == FALSE

\* variant of AwaitHandler without `except asyncio.CancelledError`
AwaitHandler_Propagate(outcome) ==
    IF outcome = "cancelled" THEN "abort"
    ELSE IF outcome = "raised" THEN "warn" ELSE "pass"

\* _await_task_cancellation on the outcome of `await task`: CancelledError is passed
\* over, any other Exception is logged as a warning, in no case does it raise
AwaitHandler(outcome) == IF outcome = "raised" THEN "warn" ELSE "pass"

----------------------------------------------------------------------------
(* PingEnabledMcpToolset *)

\* no toolset constructed yet
NoToolset == [built |-> FALSE, arg |-> Unset, ping_interval |-> 0, manager |-> "none",
              manager_interval |-> 0]

\* the ping_interval parameter of PingEnabledMcpToolset.__init__ with its default
ToolsetPingInterval(arg) == IF arg = Unset THEN DEFAULT_PING_INTERVAL_SECONDS ELSE arg

\* variant of ManagerPingInterval in which the interval is not passed on
ManagerPingInterval_Default(p) == DEFAULT_PING_INTERVAL_SECONDS

\* self._ping_interval of the manager built with ping_interval=p
ManagerPingInterval(p) == p

\* PingEnabledMcpToolset.__init__: stores the interval, lets McpToolset.__init__ build
\* its manager, then replaces that manager by a PingEnabledSessionManager
NewToolset(arg) ==
    [built |-> TRUE, arg |-> arg, ping_interval |-> ToolsetPingInterval(arg),
     manager |-> "PingEnabledSessionManager",
     manager_interval |-> ManagerPingInterval(ToolsetPingInterval(arg))]

----------------------------------------------------------------------------
----------------------------------------------------------------------------
(* Time.  In Spec and FairSpec the clock is off: a sleep may end at any step. *)

NoTimes == [t \in TaskIds |-> 0]

ClockOff == [on |-> FALSE]

ClockOn == [on |-> TRUE, now |-> 0, started |-> NoTimes, wake_at |-> NoTimes,
            in_ping |-> NoTimes]

\* variant of SleepUntil for a sleep of no length
SleepUntil_Now(now, interval) == now

\* asyncio.sleep(self._ping_interval) begun at `now` ends at now + interval
SleepUntil(now, interval) == now + interval

\* the clock when task t is spawned by asyncio.create_task
TimerSpawn(t) == IF timer.on THEN [timer EXCEPT !.started[t] = timer.now] ELSE timer

\* the clock when task t enters `await asyncio.sleep(self._ping_interval)`
TimerSleep(t) ==
    IF timer.on
    THEN [timer EXCEPT !.wake_at[t] = SleepUntil(timer.now, toolset.manager_interval)]
    ELSE timer

\* the sleep of task t has run its whole length
SleepOver(t) == timer.on => timer.now >= timer.wake_at[t]

----------------------------------------------------------------------------
\* PingEnabledSessionManager.__init__ and the world around a new manager
ManagerInit ==
    /\ ping_tasks = <<>>
    /\ tasks = [t \in TaskIds |-> Unborn]
    /\ sessions = [k \in Keys |-> NoSession]
    /\ session_state = [s \in SessionIds |-> "absent"]
    /\ calls = 0
    /\ creating = [k \in Keys |-> 0]
    /\ last_call = "none"
    /\ last_provider = "none"
    /\ closer = [pc |-> "idle", tasks_to_cancel |-> <<>>, idx |-> 0, signalled |-> {},
                 warned |-> {}]
    /\ providerCloses = 0
    /\ handed_out = {}

\* a manager owned by a toolset constructed with the default interval
Init == ManagerInit /\ toolset = NewToolset(Unset) /\ timer = ClockOff

\* _ping_task_lock can be acquired: close() is the only coroutine that could hold it
\* over an await
LockFree == ~(closer.pc = "awaiting" /\ SnapshotHoldsLock)

----------------------------------------------------------------------------
(* create_session *)

\* a caller calls create_session with headers of key k: the call enters
\* super().create_session(headers) and waits for the provider
CreateBegin(k) ==
    /\ calls < MaxCalls
    /\ calls' = calls + 1
    /\ creating' = [creating EXCEPT ![k] = @ + 1]
    /\ UNCHANGED <<ping_tasks, tasks, sessions, session_state, last_call, last_provider,
                   closer, providerCloses, handed_out, toolset, timer>>

\* the provider returns a session to a call of key k; the key is computed;
\* _start_ping_task_if_needed runs its critical section; the session is returned
CreateFinish(k) ==
    LET cached == sessions[k]
        reuse  == cached # NoSession /\ session_state[cached] = "connected"
        s      == IF reuse THEN cached ELSE NumSessions + 1
        new    == Cardinality(Spawned) + 1
    IN  /\ creating[k] > 0
        /\ LockFree
        /\ sessions' = [sessions EXCEPT ![k] = s]
        /\ session_state' = [session_state EXCEPT ![s] = "connected"]
        /\ IF NeedsPingTask(k)
           THEN /\ tasks' = [tasks EXCEPT ![new] = NewTask(s, k)]
                /\ ping_tasks' = DictSet(ping_tasks, k, new)
                /\ timer' = TimerSpawn(new)
           ELSE UNCHANGED <<tasks, ping_tasks, timer>>
        /\ creating' = [creating EXCEPT ![k] = @ - 1]
        /\ last_call' = "ok"
        /\ last_provider' = "session"
        /\ handed_out' = handed_out \cup {CreateSessionResult(s)}
        /\ UNCHANGED <<calls, closer, providerCloses, toolset>>

\* super().create_session raises in a call of key k: the error propagates to the
\* caller, nothing else runs
CreateFail(k) ==
    /\ creating[k] > 0
    /\ creating' = [creating EXCEPT ![k] = @ - 1]
    /\ last_call' = CreateSessionOnError
    /\ last_provider' = "raised"
    /\ UNCHANGED <<ping_tasks, tasks, sessions, session_state, calls, closer,
                   providerCloses, handed_out, toolset, timer>>

----------------------------------------------------------------------------
(* _ping_loop *)

\* first step of the task: runs up to `await asyncio.sleep(self._ping_interval)`
TaskStart(t) ==
    /\ tasks[t].st = "created"
    /\ ~tasks[t].must_cancel
    /\ tasks' = LoopEntry(t)
    /\ timer' = TimerSleep(t)
    /\ UNCHANGED <<ping_tasks, sessions, session_state, calls, creating, last_call,
                   last_provider, closer, providerCloses, handed_out, toolset>>

\* cancelled before its first step: CancelledError is thrown into the unstarted
\* coroutine, the try/finally is never entered
TaskCancelledUnstarted(t) ==
    /\ tasks[t].st = "created"
    /\ tasks[t].must_cancel
    /\ tasks' = Finished(t, "cancel")
    /\ UNCHANGED <<ping_tasks, sessions, session_state, calls, creating, last_call,
                   last_provider, closer, providerCloses, handed_out, toolset, timer>>

\* the sleep elapses, the session is disconnected: break, finally, cleanup
WakeDisconnected(t) ==
    /\ tasks[t].st = "sleeping"
    /\ ~tasks[t].must_cancel
    /\ SleepOver(t)
    /\ IsSessionDisconnected(tasks[t].session)
    /\ LockFree
    /\ tasks' = DisconnectResult(t)
    /\ ping_tasks' = CleanupPingTask(tasks[t].key)
    /\ UNCHANGED <<sessions, session_state, calls, creating, last_call,
                   last_provider, closer, providerCloses, handed_out, toolset, timer>>

\* the sleep elapses, the session is connected: ping_count += 1, send_ping is issued
WakePing(t) ==
    /\ tasks[t].st = "sleeping"
    /\ ~tasks[t].must_cancel
    /\ SleepOver(t)
    /\ ~IsSessionDisconnected(tasks[t].session)
    /\ PingsOf(TaskIds) < MaxPings
    /\ tasks' = [tasks EXCEPT ![t].st = "pinging", ![t].ping_count = @ + 1,
                              ![t].sleeps = @ + 1, ![t].checks = @ + 1]
    /\ UNCHANGED <<ping_tasks, sessions, session_state, calls, creating, last_call,
                   last_provider, closer, providerCloses, handed_out, toolset, timer>>

\* CancelledError arrives in the sleep: except CancelledError, raise, finally, cleanup
CancelledInSleep(t) ==
    /\ tasks[t].st = "sleeping"
    /\ tasks[t].must_cancel
    /\ LockFree
    /\ tasks' = Finished(t, "cancel")
    /\ ping_tasks' = CleanupPingTask(tasks[t].key)
    /\ UNCHANGED <<sessions, session_state, calls, creating, last_call,
                   last_provider, closer, providerCloses, handed_out, toolset, timer>>

\* send_ping returns: back to the sleep
PingReturns(t) ==
    /\ tasks[t].st = "pinging"
    /\ ~tasks[t].must_cancel
    /\ tasks' = [tasks EXCEPT ![t].st = "sleeping"]
    /\ timer' = TimerSleep(t)
    /\ UNCHANGED <<ping_tasks, sessions, session_state, calls, creating, last_call,
                   last_provider, closer, providerCloses, handed_out, toolset>>

\* variant of PingErrorResult in which the loop goes on after a failed send_ping
PingErrorResult_Retry(t) ==
    [tasks EXCEPT ![t].st = "sleeping", ![t].must_cancel = FALSE,
                  ![t].failed_at = tasks[t].ping_count]

\* the task after send_ping raised an Exception: except Exception, finally, done
PingErrorResult(t) ==
    [Finished(t, "pingfail") EXCEPT ![t].failed_at = tasks[t].ping_count]

\* send_ping raises (a transport error, or a cancellation it turned into one)
PingRaises(t) ==
    /\ tasks[t].st = "pinging"
    /\ LockFree
    /\ tasks' = PingErrorResult(t)
    /\ ping_tasks' = CleanupPingTask(tasks[t].key)
    /\ UNCHANGED <<sessions, session_state, calls, creating, last_call,
                   last_provider, closer, providerCloses, handed_out, toolset, timer>>

\* CancelledError arrives in send_ping and propagates: except CancelledError, raise,
\* finally, cleanup
CancelledInPing(t) ==
    /\ tasks[t].st = "pinging"
    /\ tasks[t].must_cancel
    /\ LockFree
    /\ tasks' = Finished(t, "cancel")
    /\ ping_tasks' = CleanupPingTask(tasks[t].key)
    /\ UNCHANGED <<sessions, session_state, calls, creating, last_call,
                   last_provider, closer, providerCloses, handed_out, toolset, timer>>

\* send_ping swallows the CancelledError and returns: the loop goes on
PingSwallowsCancel(t) ==
    /\ tasks[t].st = "pinging"
    /\ tasks[t].must_cancel
    /\ tasks' = [tasks EXCEPT ![t].st = "sleeping", ![t].must_cancel = FALSE]
    /\ timer' = TimerSleep(t)
    /\ UNCHANGED <<ping_tasks, sessions, session_state, calls, creating, last_call,
                   last_provider, closer, providerCloses, handed_out, toolset>>

----------------------------------------------------------------------------
(* close *)

\* variant of AwaitCompletes that does not wait for the task
AwaitCompletes_NoWait(tsk, t) == TRUE

\* `await task` of _await_task_cancellation returns (or raises) once the task is done
AwaitCompletes(tsk, t) == tsk[t].st = "done"

\* variant of LoopEnd in which the loop stops after the first task
LoopEnd_First(snapshot) == IF Len(snapshot) > 0 THEN 1 ELSE 0

\* the last snapshot position the for loop of _cancel_all_ping_tasks visits
LoopEnd(snapshot) == Len(snapshot)

\* the for loop from position i on: task.cancel() then await task; stops at the first
\* task that is not done yet or whose outcome the handler lets through, or runs past
\* the end of the snapshot
RECURSIVE NextPending(_, _, _)
NextPending(tsk, snapshot, i) ==
    IF i > LoopEnd(snapshot) THEN i
    ELSE IF /\ AwaitCompletes(tsk, snapshot[i].task)
            /\ AwaitHandler(tsk[snapshot[i].task].outcome) # "abort"
         THEN NextPending(tsk, snapshot, i + 1)
    ELSE i

\* task.cancel(): no effect on a done task, otherwise CancelledError is thrown into
\* the task at its next step
Cancel(tsk, t) ==
    IF tsk[t].st = "done" THEN tsk ELSE [tsk EXCEPT ![t].must_cancel = TRUE]

\* close() runs its loop from position `from` until it suspends in `await task`
\* or calls super().close()
CloseRun(snapshot, from) ==
    LET stop    == NextPending(tasks, snapshot, from)
        visited == {snapshot[i].task : i \in from..(IF stop > LoopEnd(snapshot)
                                                    THEN LoopEnd(snapshot) ELSE stop)}
        warned  == {snapshot[i].task : i \in
                       {j \in from..(stop - 1) :
                           AwaitHandler(tasks[snapshot[j].task].outcome) = "warn"}}
        after(pc) == [pc |-> pc, tasks_to_cancel |-> snapshot, idx |-> stop,
                      signalled |-> closer.signalled \cup visited,
                      warned |-> closer.warned \cup warned]
    IN  IF stop > LoopEnd(snapshot)
        THEN /\ closer' = after("provider")
             /\ providerCloses' = providerCloses + 1
             /\ tasks' = tasks
        ELSE IF AwaitCompletes(tasks, snapshot[stop].task)
        THEN \* the error of `await task` leaves _await_task_cancellation and close()
             /\ closer' = after("failed")
             /\ providerCloses' = providerCloses
             /\ tasks' = tasks
        ELSE /\ closer' = after("awaiting")
             /\ providerCloses' = providerCloses
             /\ tasks' = Cancel(tasks, snapshot[stop].task)

\* close() is called (once in the life of the manager): snapshot and clear under
\* the lock, then the loop
CloseCall ==
    /\ closer.pc = "idle"
    /\ ping_tasks' = <<>>
    /\ CloseRun(ping_tasks, 1)
    /\ UNCHANGED <<sessions, session_state, calls, creating, last_call, last_provider,
                   handed_out, toolset, timer>>

\* the awaited task is done: `await task` ends, its outcome is handled and close()
\* goes on with its loop
CloseResume ==
    /\ closer.pc = "awaiting"
    /\ AwaitCompletes(tasks, closer.tasks_to_cancel[closer.idx].task)
    /\ CloseRun(closer.tasks_to_cancel, closer.idx)
    /\ UNCHANGED <<ping_tasks, sessions, session_state, calls, creating, last_call,
                   last_provider, handed_out, toolset, timer>>

\* super().close() returns: the provider holds no session any more; close() returns.
\* Whether a closed session reports disconnected is the transport's business (the
\* liveness check is best-effort): Disconnect may or may not have happened.
ProviderCloseReturns ==
    /\ closer.pc = "provider"
    /\ closer' = [closer EXCEPT !.pc = "returned"]
    /\ sessions' = [k \in Keys |-> NoSession]
    /\ UNCHANGED <<ping_tasks, tasks, session_state, calls, creating, last_call,
                   last_provider, providerCloses, handed_out, toolset, timer>>

----------------------------------------------------------------------------
(* environment *)

\* the transport of a session goes away
Disconnect(s) ==
    /\ session_state[s] = "connected"
    /\ session_state' = [session_state EXCEPT ![s] = "disconnected"]
    /\ UNCHANGED <<ping_tasks, tasks, sessions, calls, creating, last_call,
                   last_provider, closer, providerCloses, handed_out, toolset, timer>>

----------------------------------------------------------------------------
Next ==
    \/ \E k \in Keys : CreateBegin(k)
    \/ \E k \in Keys : CreateFinish(k)
    \/ \E k \in Keys : CreateFail(k)
    \/ \E t \in TaskIds : TaskStart(t)
    \/ \E t \in TaskIds : TaskCancelledUnstarted(t)
    \/ \E t \in TaskIds : WakeDisconnected(t)
    \/ \E t \in TaskIds : WakePing(t)
    \/ \E t \in TaskIds : CancelledInSleep(t)
    \/ \E t \in TaskIds : PingReturns(t)
    \/ \E t \in TaskIds : PingRaises(t)
    \/ \E t \in TaskIds : CancelledInPing(t)
    \/ \E t \in TaskIds : PingSwallowsCancel(t)
    \/ CloseCall
    \/ CloseResume
    \/ ProviderCloseReturns
    \/ \E s \in SessionIds : Disconnect(s)

Spec == Init /\ [][Next]_vars

----------------------------------------------------------------------------
(* Construction of the toolset *)

\* PingEnabledMcpToolset(connection_params=..., ping_interval=arg), or without the
\* ping_interval argument: the new manager starts with an empty registry
Construct(arg) ==
    /\ ~toolset.built
    /\ toolset' = NewToolset(arg)
    /\ ping_tasks' = <<>>
    /\ UNCHANGED <<tasks, sessions, session_state, calls, creating, last_call,
                   last_provider, closer, providerCloses, handed_out, timer>>

InitToolset == ManagerInit /\ toolset = NoToolset /\ timer = ClockOff

NextToolset == \E arg \in IntervalArgs : Construct(arg)

SpecToolset == InitToolset /\ [][NextToolset]_vars

----------------------------------------------------------------------------
(* The ping loop against the clock: sessions stay connected, pings do not fail *)

\* some task has a step to take now: its first step, or the wake-up from a sleep that
\* is over
TaskReady ==
    \E t \in TaskIds :
        \/ tasks[t].st = "created"
        \/ tasks[t].st = "sleeping" /\ timer.now >= timer.wake_at[t]

\* one second passes: the event loop has no task to run; a send_ping in flight takes
\* that second
Tick ==
    /\ timer.on
    /\ timer.now < MaxTime
    /\ ~TaskReady
    /\ timer' = [timer EXCEPT
                    !.now = @ + 1,
                    !.in_ping = [t \in TaskIds |->
                                    IF tasks[t].st = "pinging" THEN @[t] + 1 ELSE @[t]]]
    /\ UNCHANGED <<ping_tasks, tasks, sessions, session_state, calls, creating, last_call,
                   last_provider, closer, providerCloses, handed_out, toolset>>

\* a manager built with an interval of 1..MaxTimedInterval seconds, the clock running
InitTimed ==
    /\ ManagerInit
    /\ \E arg \in 1..MaxTimedInterval : toolset = NewToolset(arg)
    /\ timer = ClockOn

NextTimed ==
    \/ \E k \in Keys : CreateBegin(k)
    \/ \E k \in Keys : CreateFinish(k)
    \/ \E t \in TaskIds : TaskStart(t)
    \/ \E t \in TaskIds : WakePing(t)
    \/ \E t \in TaskIds : PingReturns(t)
    \/ Tick

SpecTimed == InitTimed /\ [][NextTimed]_vars

----------------------------------------------------------------------------
(* Shutdown under fair scheduling *)

\* the steps of Next except a send_ping that swallows a cancellation
FairNext ==
    \/ \E k \in Keys : CreateBegin(k)
    \/ \E k \in Keys : CreateFinish(k)
    \/ \E k \in Keys : CreateFail(k)
    \/ \E t \in TaskIds : TaskStart(t)
    \/ \E t \in TaskIds : TaskCancelledUnstarted(t)
    \/ \E t \in TaskIds : WakeDisconnected(t)
    \/ \E t \in TaskIds : WakePing(t)
    \/ \E t \in TaskIds : CancelledInSleep(t)
    \/ \E t \in TaskIds : PingReturns(t)
    \/ \E t \in TaskIds : PingRaises(t)
    \/ \E t \in TaskIds : CancelledInPing(t)
    \/ CloseCall
    \/ CloseResume
    \/ ProviderCloseReturns
    \/ \E s \in SessionIds : Disconnect(s)

\* a task with a CancelledError pending takes its next step; a send_ping that is
\* cancelled ends, by the CancelledError or by another error
CancelledTaskStep ==
    \E t \in TaskIds :
        /\ tasks[t].must_cancel
        /\ \/ TaskCancelledUnstarted(t)
           \/ CancelledInSleep(t)
           \/ CancelledInPing(t)
           \/ PingRaises(t)

\* the event loop runs every coroutine that is ready: the task close() has cancelled
\* gets its step, close() resumes once the task it awaits is done, super().close()
\* returns (at most one of the three is ever ready at a time)
Fairness == WF_vars(CancelledTaskStep \/ CloseResume \/ ProviderCloseReturns)

FairSpec == Init /\ [][FairNext]_vars /\ Fairness

----------------------------------------------------------------------------
(* Properties *)

Snapshot == closer.tasks_to_cancel

SnapshotTasks == DictTasks(Snapshot)

TasksOfKey(k) == {t \in Spawned : tasks[t].key = k}

\* keys of which some task is done
ExitedKeys == {tasks[t].key : t \in {u \in Spawned : tasks[u].st = "done"}}

\* some send_ping on session s has failed
PingFailedOn(s) == \E t \in Spawned : tasks[t].session = s /\ tasks[t].failed_at > 0

\* this step is the return of a successful create_session call of key k
CreateReturns(k) == creating'[k] < creating[k] /\ last_call' = "ok"

\* this step issues a send_ping in task t
IssuesPing(t) == tasks[t].st # "pinging" /\ tasks'[t].st = "pinging"

\* this step is the return of close()
CloseReturns == closer.pc # "returned" /\ closer'.pc = "returned"

\* C1: at every instant at most one ping task that has been spawned and has not
\* finished exists for a key, whether or not it is in the registry.
C1_AtMostOneLiveTaskPerKey ==
    \A k \in Keys : Cardinality({t \in Live : tasks[t].key = k}) <= 1

C2_OneTaskOneEntry ==
    \A k \in Keys :
        (k \notin ExitedKeys /\ ~DictHas(Snapshot, k))
        => /\ Cardinality(TasksOfKey(k)) <= 1
           /\ sessions[k] # NoSession => Cardinality(TasksOfKey(k)) = 1
           /\ Cardinality({i \in 1..Len(ping_tasks) : ping_tasks[i].key = k})
                = Cardinality(TasksOfKey(k))
           /\ \A i \in 1..Len(ping_tasks) :
                 ping_tasks[i].key = k => ping_tasks[i].task \in TasksOfKey(k)

C2_CreateStep ==
    \A k \in Keys :
        CreateReturns(k)
        => /\ DictHas(ping_tasks, k) => (ping_tasks' = ping_tasks /\ tasks' = tasks)
           /\ sessions'[k] \in handed_out'

C3_NoLoopSurvivesClose == [][CloseReturns => Live' = {}]_vars

\* C4: every session handed out by create_session that is connected and has had no
\* failed ping has, while close() has not been called, a running ping task whose
\* loop pings that session.
C4_HandedOutSessionKeptAlive ==
    \A s \in handed_out :
        (session_state[s] = "connected" /\ ~PingFailedOn(s) /\ closer.pc = "idle")
        => \E t \in Live : tasks[t].session = s

\* C5 as claimed: a task is in the registry if and only if it has been spawned and
\* has not finished.
C5_RegistryIffRunning ==
    \A t \in TaskIds : (t \in DictTasks(ping_tasks)) <=> (t \in Live)

\* C5 as amended: every registry entry maps its key to a spawned task of that key
\* that has not finished (no entry refers to a finished task), a key has at most
\* one entry, and until close() is called every running task is in the registry.
C5_EntriesAreRunningTasks ==
    /\ \A i \in 1..Len(ping_tasks) :
          /\ ping_tasks[i].task \in Live
          /\ tasks[ping_tasks[i].task].key = ping_tasks[i].key
          /\ \A j \in 1..Len(ping_tasks) : ping_tasks[j].key = ping_tasks[i].key => j = i
    /\ closer.pc = "idle" => \A t \in Live : t \in DictTasks(ping_tasks)

\* a task has ended on its own and removed its entry while another one is registered
C5_Witness ==
    /\ \E t \in Spawned : tasks[t].st = "done" /\ tasks[t].cause \in {"disconnect", "pingfail"}
    /\ Len(ping_tasks) >= 1

\* C6: when close() returns the registry is empty.
C6_RegistryEmptyAtCloseReturn == [][CloseReturns => ping_tasks' = <<>>]_vars

\* C7: when close() has returned, every task of its snapshot is done (finished or
\* cancelled), none is running.
C7_SnapshotTasksDone ==
    closer.pc = "returned" => \A t \in SnapshotTasks : tasks[t].st = "done"

\* close() has returned after a snapshot of two tasks, one of them stopped by the
\* cancellation
C7_Witness ==
    /\ closer.pc = "returned"
    /\ Len(Snapshot) >= 2
    /\ \E t \in SnapshotTasks : tasks[t].cause = "cancel"

\* C8: after close() has returned no send_ping is issued on a session whose ping
\* task was in the snapshot of close().
C8_NoPingAfterClose ==
    [][\A t \in TaskIds :
          (IssuesPing(t) /\ closer.pc = "returned")
          => tasks[t].session \notin {tasks[u].session : u \in SnapshotTasks}]_vars

C9_ProviderCloseAfterTasks ==
    /\ closer.pc \in {"provider", "returned"}
       => \A t \in SnapshotTasks : tasks[t].st = "done" /\ t \in closer.signalled
    /\ providerCloses = IF closer.pc \in {"provider", "returned"} THEN 1 ELSE 0

C9_CloseStep ==
    /\ \A t \in SnapshotTasks : IssuesPing(t) => closer.pc \notin {"provider", "returned"}
    /\ CloseReturns => (closer.pc = "provider" /\ providerCloses' = providerCloses)

\* C9: super().close() is invoked only once every task of the snapshot has had
\* cancel() called on it and is done, so no task of the snapshot issues a send_ping
\* while or after the provider closes; it is invoked exactly once by close(), as
\* the last step before close() returns.
C9_ShutdownOrdering == []C9_ProviderCloseAfterTasks /\ [][C9_CloseStep]_vars

\* the provider is closing after a snapshot of two tasks, of which one had pinged
\* and one was stopped by the cancellation
C9_Witness ==
    /\ closer.pc = "provider"
    /\ Len(Snapshot) >= 2
    /\ \E t \in SnapshotTasks : tasks[t].ping_count >= 1
    /\ \E t \in SnapshotTasks : tasks[t].cause = "cancel"

\* C10: a loop whose Nth send_ping failed has made exactly N attempts, makes no
\* further one and is done.
C10_NoPingRetry ==
    \A t \in TaskIds :
        tasks[t].failed_at > 0
        => /\ tasks[t].st = "done"
           /\ tasks[t].cause = "pingfail"
           /\ tasks[t].ping_count = tasks[t].failed_at

\* a loop has ended on the failure of its second send_ping
C10_Witness == \E t \in TaskIds : tasks[t].failed_at = 2 /\ tasks[t].st = "done"

\* C11: when the liveness check reports the session disconnected on the Nth check of a
\* loop, that loop has issued exactly N-1 send_ping calls, each after a sleep of its
\* own, none of them failed, the task is done by a normal return, and it issues no
\* send_ping and takes no step afterwards.
C11_DisconnectState ==
    \A t \in Spawned : tasks[t].cause = "disconnect" =>
        /\ tasks[t].st = "done"
        /\ tasks[t].outcome = "returned"
        /\ tasks[t].ping_count = tasks[t].checks - 1
        /\ tasks[t].sleeps = tasks[t].checks
        /\ tasks[t].failed_at = 0

C11_DisconnectStep ==
    \A t \in TaskIds : tasks[t].cause = "disconnect" => tasks'[t] = tasks[t]

C11_DisconnectEndsLoop == []C11_DisconnectState /\ [][C11_DisconnectStep]_vars

C11_Witness ==
    \E t \in Spawned : tasks[t].cause = "disconnect" /\ tasks[t].checks = 2

\* this step ends a create_session call of key k in which super().create_session raised
ProviderFails(k) == creating'[k] < creating[k] /\ last_provider' = "raised"

\* C12: when the provider's session creation fails, create_session passes the failure
\* on to its caller, spawns no task and leaves the registry and every task as they
\* were.
C12_CreateFailStep ==
    \A k \in Keys : ProviderFails(k) =>
        /\ last_call' = "error"
        /\ ping_tasks' = ping_tasks
        /\ tasks' = tasks
        /\ handed_out' = handed_out

C12_FailedCreationLeavesRegistry == [][C12_CreateFailStep]_vars

C12_Witness ==
    /\ last_provider = "raised"
    /\ last_call = "error"
    /\ Len(ping_tasks) = 1
    /\ Cardinality(Spawned) = 1

\* this step ends the loop of task t after its first step: the `finally` block runs
LoopExits(t) ==
    tasks[t].st \in {"sleeping", "pinging"} /\ tasks'[t].st = "done"

\* C13: whichever way a ping loop ends (disconnect, ping failure, cancellation), once
\* the task is finished no registry entry maps to it; and when its key is already
\* absent at that point the removal leaves the registry as it is.
C13_NoEntryOfFinishedTask ==
    \A t \in Spawned : tasks[t].st = "done" =>
        /\ tasks[t].cause \in {"disconnect", "pingfail", "cancel"}
        /\ \A i \in 1..Len(ping_tasks) : ping_tasks[i].task # t

C13_RemovalStep ==
    \A t \in TaskIds :
        (LoopExits(t) /\ ~DictHas(ping_tasks, tasks[t].key)) => ping_tasks' = ping_tasks

C13_CleanupOnEveryExit == []C13_NoEntryOfFinishedTask /\ [][C13_RemovalStep]_vars

C13_Witness ==
    \E t \in Spawned :
        /\ tasks[t].cause = "cancel"
        /\ tasks[t].ping_count = 1
        /\ Len(ping_tasks) = 1
        /\ ping_tasks[1].key # tasks[t].key

\* this step is a step of close(): its call, or its resumption after an awaited task
CloseSteps == closer.pc \in {"idle", "awaiting"} /\ closer' # closer

\* C14: close() never fails because of a ping task: a cancelled task is passed over
\* without a warning, a task that ended with another error is only recorded as a
\* warning, and after each awaited task close() goes on to cancel and await the next
\* task of its snapshot, and calls the provider's close once it is past the last one.
C14_CloseNotFailed ==
    /\ closer.pc # "failed"
    /\ \A t \in closer.warned : tasks[t].outcome = "raised"
    /\ \A i \in 1..Len(Snapshot) :
           (i < closer.idx /\ tasks[Snapshot[i].task].outcome = "raised")
               => Snapshot[i].task \in closer.warned

C14_CloseStep ==
    CloseSteps =>
        /\ closer'.pc \in {"awaiting", "provider"}
        /\ closer'.idx > closer.idx
        /\ closer'.pc = "awaiting" =>
               /\ closer'.idx <= Len(closer'.tasks_to_cancel)
               /\ tasks'[closer'.tasks_to_cancel[closer'.idx].task].must_cancel
        /\ closer'.pc = "provider" =>
               /\ closer'.idx = Len(closer'.tasks_to_cancel) + 1
               /\ providerCloses' = providerCloses + 1

C14_CloseSurvivesTasks == []C14_CloseNotFailed /\ [][C14_CloseStep]_vars

C14_Witness ==
    /\ closer.pc = "returned"
    /\ Len(Snapshot) = 2
    /\ tasks[Snapshot[1].task].outcome = "cancelled"
    /\ tasks[Snapshot[2].task].outcome = "cancelled"
    /\ tasks[Snapshot[2].task].ping_count = 1

\* C15: a finished ping task is in the cancelled state exactly when a CancelledError
\* ended its loop, and only a task close() has cancelled ends that way; a loop ended by
\* a disconnect or by a failed ping returns normally, so no task ends with an error:
\* close() has nothing to warn about and does not fail, and a create_session call
\* reports an error only when the provider raised.
C15_OutcomeTellsCause ==
    /\ \A t \in Spawned : tasks[t].st = "done" =>
           /\ tasks[t].outcome = "cancelled" <=> tasks[t].cause = "cancel"
           /\ tasks[t].cause \in {"disconnect", "pingfail"} => tasks[t].outcome = "returned"
           /\ tasks[t].outcome = "cancelled" => t \in closer.signalled
    /\ \A t \in Spawned : tasks[t].outcome # "raised"
    /\ closer.warned = {}
    /\ closer.pc # "failed"
    /\ last_call = "error" => last_provider = "raised"

C15_Witness ==
    /\ closer.pc = "returned"
    /\ Len(Snapshot) = 2
    /\ tasks[Snapshot[1].task].outcome = "cancelled"
    /\ tasks[Snapshot[2].task].cause = "pingfail"
    /\ tasks[Snapshot[2].task].outcome = "returned"

\* C16: after PingEnabledMcpToolset is constructed with ping interval p, its session
\* manager is a PingEnabledSessionManager whose ping interval is p and whose registry
\* is empty; without the argument the interval is the default of 50 seconds, which is
\* positive and below the idle timeout of 60 seconds.
C16_ToolsetInstallsManager ==
    /\ toolset.built =>
           /\ toolset.manager = "PingEnabledSessionManager"
           /\ toolset.arg # Unset =>
                  toolset.manager_interval = toolset.arg /\ toolset.ping_interval = toolset.arg
           /\ toolset.arg = Unset =>
                  toolset.manager_interval = 50 /\ toolset.ping_interval = 50
           /\ ping_tasks = <<>>
    /\ DEFAULT_PING_INTERVAL_SECONDS > 0
    /\ DEFAULT_PING_INTERVAL_SECONDS < IDLE_TIMEOUT_SECONDS

C16_Witness ==
    toolset.built /\ toolset.arg = 30 /\ toolset.manager_interval = 30

\* this step is the one in which task t finishes
TaskEnds(t) == tasks[t].st # "done" /\ tasks'[t].st = "done"

\* C17: a terminating ping task removes only its own entry: the step in which a task
\* finishes takes no entry of another task out of the registry, whatever the
\* interleaving of close(), create_session for the same key and the exit of the task.
C17_SelfRemovalStep ==
    \A t \in TaskIds : TaskEnds(t) =>
        \A i \in 1..Len(ping_tasks) :
            ping_tasks[i].task # t =>
                \E j \in 1..Len(ping_tasks') : ping_tasks'[j] = ping_tasks[i]

C17_RemovesOnlyOwnEntry == [][C17_SelfRemovalStep]_vars

\* the registry entries, as a set
Entries(d) == {d[i] : i \in 1..Len(d)}

\* C18: whenever create_session finds an entry for its key and spawns nothing, the
\* task of that entry is still in its loop (not finished, not on its way out); and an
\* entry only ever enters the registry in a create_session step, for a task spawned in
\* that step: no step of a ping task inserts or re-inserts one.
C18_SkipStep ==
    \A k \in Keys : (CreateReturns(k) /\ DictHas(ping_tasks, k)) =>
        /\ \A i \in 1..Len(ping_tasks) :
               ping_tasks[i].key = k => tasks[ping_tasks[i].task].st \in Running
        /\ tasks' = tasks
        /\ ping_tasks' = ping_tasks

C18_InsertStep ==
    \A e \in Entries(ping_tasks') \ Entries(ping_tasks) :
        /\ CreateReturns(e.key)
        /\ tasks[e.task].st = "unborn"
        /\ tasks'[e.task].st = "created"
        /\ tasks' = [tasks EXCEPT ![e.task] = tasks'[e.task]]

C18_NoStaleEntryAtCreation == [][C18_SkipStep /\ C18_InsertStep]_vars

C18_Witness ==
    /\ Cardinality(handed_out) = 2
    /\ Cardinality(Spawned) = 1
    /\ \E i \in 1..Len(ping_tasks) :
           /\ tasks[ping_tasks[i].task].st = "pinging"
           /\ sessions[ping_tasks[i].key] # tasks[ping_tasks[i].task].session

\* no task has a cancellation pending
NoCancelPending == \A t \in TaskIds : ~tasks[t].must_cancel

\* close() is not under way: not called yet, or returned with its snapshot finished
CloseSettled ==
    \/ closer.pc = "idle"
    \/ closer.pc = "returned" /\ \A t \in SnapshotTasks : tasks[t].st = "done"

C20_OneSleepPerPing ==
    \A t \in Spawned :
        /\ tasks[t].ping_count <= tasks[t].sleeps
        /\ tasks[t].checks = tasks[t].sleeps
        /\ tasks[t].st = "created" => tasks[t].sleeps = 0 /\ tasks[t].ping_count = 0
        /\ tasks[t].st = "pinging" => tasks[t].ping_count = tasks[t].sleeps

C20_PingStep ==
    \A t \in TaskIds :
        /\ IssuesPing(t) =>
               /\ tasks[t].st = "sleeping"
               /\ ~tasks[t].must_cancel
               /\ ~IsSessionDisconnected(tasks[t].session)
               /\ tasks'[t].sleeps = tasks[t].sleeps + 1
               /\ tasks'[t].checks = tasks[t].checks + 1
               /\ tasks'[t].ping_count = tasks[t].ping_count + 1
        /\ tasks'[t].ping_count # tasks[t].ping_count => IssuesPing(t)

C20_FixedDelayOrder == []C20_OneSleepPerPing /\ [][C20_PingStep]_vars

C20_Witness ==
    \E t \in Spawned :
        tasks[t].st = "pinging" /\ tasks[t].ping_count = 2 /\ tasks[t].sleeps = 2

\* this step ends the loop of task t by a disconnect or by a failed send_ping
LoopEndsByItself(t) ==
    TaskEnds(t) /\ tasks'[t].cause \in {"disconnect", "pingfail"}

\* C21: ping loops of different keys are independent: in the step in which a loop ends
\* by a failed ping or a disconnect, the tasks of every other key keep their whole
\* record (running state, ping count), every registry entry of another key stays in
\* place and in order, and nothing but the key of the ending task leaves the registry.
C21_OtherKeysStep ==
    \A t \in TaskIds : LoopEndsByItself(t) =>
        /\ \A u \in TaskIds : tasks[u].key # tasks[t].key => tasks'[u] = tasks[u]
        /\ ping_tasks' = SelectSeq(ping_tasks, LAMBDA e : e.key # tasks[t].key)
        /\ ~DictHas(ping_tasks', tasks[t].key)

C21_LoopsIndependent == [][C21_OtherKeysStep]_vars

C21_Witness ==
    \E t \in Spawned :
        /\ tasks[t].cause = "pingfail"
        /\ Len(ping_tasks) = 1
        /\ tasks[ping_tasks[1].task].key # tasks[t].key
        /\ tasks[ping_tasks[1].task].ping_count = 1
        /\ tasks[ping_tasks[1].task].st = "sleeping"

\* seconds since task t was spawned
Elapsed(t) == timer.now - timer.started[t]

\* a running task whose session is connected and whose pings have not failed
Pinging(t) ==
    /\ t \in Live
    /\ ~IsSessionDisconnected(tasks[t].session)
    /\ tasks[t].failed_at = 0

\* C22 as stated: for a session that never disconnects and whose pings never fail, a
\* ping task that has been running for t seconds with interval i has sent at most
\* floor(t / i) and at least floor(t / i) - 1 pings.
C22_PingCountBounds ==
    \A t \in TaskIds : Pinging(t) =>
        /\ tasks[t].ping_count <= Elapsed(t) \div toolset.manager_interval
        /\ tasks[t].ping_count >= (Elapsed(t) \div toolset.manager_interval) - 1

\* C22 amended: such a task has sent at most floor(t / i) pings, and at least
\* floor((t - d) / i) - 1 pings, where d is the time it has spent inside send_ping;
\* the lower bound floor(t / i) - 1 holds as long as d = 0.
C22_PingCountBoundsLessPingTime ==
    \A t \in TaskIds : Pinging(t) =>
        /\ tasks[t].ping_count <= Elapsed(t) \div toolset.manager_interval
        /\ tasks[t].ping_count >=
               ((Elapsed(t) - timer.in_ping[t]) \div toolset.manager_interval) - 1
        /\ timer.in_ping[t] = 0 =>
               tasks[t].ping_count >= (Elapsed(t) \div toolset.manager_interval) - 1

C22_Witness ==
    \E t \in TaskIds :
        /\ Pinging(t)
        /\ timer.in_ping[t] >= 2
        /\ tasks[t].ping_count = 2
        /\ tasks[t].ping_count < (Elapsed(t) \div toolset.manager_interval) - 1

====
